---- MODULE Spec2Model ----
(***************************************************************************)
(* Presence subsystem of the emitter broker: the in-protocol handler       *)
(* OnPresence, the HTTP handler OnHTTPPresence, Notify, and the            *)
(* scatter-gather status aggregation (getAllPresence) they call.           *)
(***************************************************************************)
EXTENDS Integers, Sequences, FiniteSets, TLC

\* ------------------------------------------------------------------ bounds
MaxLen == 2         \* longest channel text a request carries
MaxSubs == 2        \* most entries of the bus's subscription table
MaxSurveys == 2     \* most cluster surveys issued in one run
MaxAnswer == 1      \* most entries in one peer's survey answer

\* ------------------------------------------------------------ value spaces
Chars == {"a", "/"}
Texts == UNION {[1..n -> Chars] : n \in 0..MaxLen}
Keys == {<<"k">>}
Conns == {1, 2}                 \* connections of this node (requesters)
PeerIDs == {1, 3}               \* connection identifiers a peer may report
Peers == {"p1", "p2"}
LocalNode == "n0"
Contracts == {<<"c1">>}
AllowPresence == "presence"
AllowExtend == "extend"
Flags == {"absent", "true", "false"}

Range(s) == {s[i] : i \in 1..Len(s)}

\* Sequences over S without repetition, of length at most n.
SeqsNoDup(S, n) ==
    {s \in UNION {[1..k -> S] : k \in 0..n} :
        \A i, j \in 1..Len(s) : i # j => s[i] # s[j]}

\* ------------------------------------------------------------ wire request
\* A payload is either malformed or a JSON object whose status and changes
\* fields may be absent.
MalformedPayload ==
    [WellFormed |-> FALSE, Key |-> <<>>, Channel |-> <<>>,
     Status |-> "absent", Changes |-> "absent"]

Payloads ==
    {MalformedPayload} \cup
    [WellFormed : {TRUE}, Key : Keys, Channel : Texts,
     Status : Flags, Changes : Flags]

\* Mutant: the status default is the zero value.
DefaultRequestNoStatus ==
    [Key |-> <<>>, Channel |-> <<>>, Status |-> FALSE, Changes |-> "nil"]

\* Request{Status: true, Changes: nil}
DefaultRequest ==
    [Key |-> <<>>, Channel |-> <<>>, Status |-> TRUE, Changes |-> "nil"]

\* Request{} of the HTTP handler: Go zero values.
ZeroRequest ==
    [Key |-> <<>>, Channel |-> <<>>, Status |-> FALSE, Changes |-> "nil"]

\* json.Unmarshal(payload, &msg): a field the payload omits keeps the value
\* msg already has.
Unmarshal(payload, msg) ==
    IF ~payload.WellFormed
    THEN [err |-> TRUE, msg |-> msg]
    ELSE [err |-> FALSE,
          msg |-> [Key |-> payload.Key,
                   Channel |-> payload.Channel,
                   Status |-> IF payload.Status = "absent" THEN msg.Status
                              ELSE payload.Status = "true",
                   Changes |-> IF payload.Changes = "absent" THEN msg.Changes
                               ELSE payload.Changes]]

\* ------------------------------------------------------- channel handling
HasSuffix(s, c) == Len(s) > 0 /\ s[Len(s)] = c

\* Mutant: the slash is appended whether or not the text ends in one.
EnsureTrailingSlashAlways(s) == s \o <<"/">>

\* if !strings.HasSuffix(msg.Channel, "/") { msg.Channel = msg.Channel + "/" }
EnsureTrailingSlash(s) == IF HasSuffix(s, "/") THEN s ELSE s \o <<"/">>

FirstSlash(s) ==
    IF \E i \in 1..Len(s) : s[i] = "/"
    THEN CHOOSE i \in 1..Len(s) : s[i] = "/" /\ \A j \in 1..(i - 1) : s[j] # "/"
    ELSE 0

\* The "/"-terminated segments of a text that ends in "/".
RECURSIVE Segments(_)
Segments(s) ==
    IF s = <<>> THEN <<>>
    ELSE LET i == FirstSlash(s)
         IN <<SubSeq(s, 1, i - 1)>> \o Segments(SubSeq(s, i + 1, Len(s)))

ChannelInvalid == "invalid"
ChannelStatic == "static"

InvalidChannel ==
    [Key |-> <<>>, Channel |-> <<>>, Query |-> <<>>, ChannelType |-> ChannelInvalid]

\* security.ParseChannel: "<key>/<segment>/.../" with a non-empty key and
\* non-empty segments; anything else is ChannelInvalid.
ParseChannel(text) ==
    LET i == FirstSlash(text)
        rest == SubSeq(text, i + 1, Len(text))
    IN IF i <= 1 \/ rest = <<>> \/ ~HasSuffix(rest, "/")
       THEN InvalidChannel
       ELSE IF \E k \in 1..Len(Segments(rest)) : Segments(rest)[k] = <<>>
       THEN InvalidChannel
       ELSE [Key |-> SubSeq(text, 1, i - 1), Channel |-> rest,
             Query |-> Segments(rest), ChannelType |-> ChannelStatic]

\* message.NewSsid(contract, query)
NewSsid(contract, query) == <<contract>> \o query

\* message.NewSsidForPresence(ssid): the presence-watch class of an SSID.
NewSsidForPresence(ssid) == <<<<"system">>, <<"presence">>>> \o ssid

\* Conn.LocalID() and Conn.Username()
LocalID(c) == c
Username(c) == <<"user", c>>

\* ------------------------------------------------------------ collaborators
\* What Authorize(channel, AllowPresence) may return: (contract, key, allowed).
\* The key is seen by the handlers only through HasPermission(AllowExtend).
AuthOutcomes == [Contract : Contracts, Allowed : BOOLEAN, Extend : BOOLEAN]

\* The outcome recorded for a request that never reached Authorize.
NoAuth == [Contract |-> <<>>, Allowed |-> FALSE, Extend |-> FALSE]

\* key.HasPermission(security.AllowExtend)
HasPermission(auth, perm) == perm = AllowExtend /\ auth.Extend

\* PubSub.Subscribe(c, ev): the bus registers (ev.Ssid, ev.Conn) once; a bus
\* that reports failure registers nothing.
BusSubscribe(table, ev, busOk) ==
    IF busOk /\ \A i \in 1..Len(table) : table[i] # [Ssid |-> ev.Ssid, Conn |-> ev.Conn]
    THEN Append(table, [Ssid |-> ev.Ssid, Conn |-> ev.Conn])
    ELSE table

\* PubSub.Unsubscribe(c, ev)
BusUnsubscribe(table, ev, busOk) ==
    IF busOk
    THEN SelectSeq(table, LAMBDA e : e # [Ssid |-> ev.Ssid, Conn |-> ev.Conn])
    ELSE table

\* ------------------------------------------------------- presence entries
Info(id, node) == [ID |-> id, Username |-> Username(id), Node |-> node]

RECURSIVE MapInfo(_, _)
MapInfo(entries, node) ==
    IF entries = <<>> THEN <<>>
    ELSE <<Info(Head(entries).Conn, node)>> \o MapInfo(Tail(entries), node)

\* The local presence store: the subscribers registered under ssid on this
\* node, in first-seen order.
getLocalPresence(table, ssid) ==
    MapInfo(SelectSeq(table, LAMBDA e : e.Ssid = ssid), LocalNode)

IdsOf(who) == {who[i].ID : i \in 1..Len(who)}

\* Keep the first entry of every connection identifier.
RECURSIVE DedupByID(_, _)
DedupByID(who, seen) ==
    IF who = <<>> THEN <<>>
    ELSE IF Head(who).ID \in seen THEN DedupByID(Tail(who), seen)
    ELSE <<Head(who)>> \o DedupByID(Tail(who), seen \cup {Head(who).ID})

\* The answers gathered so far, concatenated in arrival order.
RECURSIVE Flatten(_)
Flatten(answers) ==
    IF answers = <<>> THEN <<>>
    ELSE Head(answers).Who \o Flatten(Tail(answers))

\* Step 5 of the aggregation: local first, then every answer that arrived in
\* time, deduplicated by connection identifier.
Merge(local, answers) == DedupByID(local \o Flatten(answers), {})

\* ------------------------------------------------------------ the handlers
ErrBadRequest == "ErrBadRequest"
ErrUnauthorized == "ErrUnauthorized"
ErrUnauthorizedExt == "ErrUnauthorizedExt"
NoError == "none"
EventTypeStatus == "status"

Response(kind, err, event, channel, who) ==
    [Kind |-> kind, Err |-> err, Event |-> event, Channel |-> channel, Who |-> who]

\* The nil service.Response.
NilResponse == Response("nil", NoError, "", <<>>, <<>>)

\* errors.ErrBadRequest, errors.ErrUnauthorized, errors.ErrUnauthorizedExt
ErrorResponse(err) == Response("error", err, "", <<>>, <<>>)

\* Mutant: the response is built without the gathered list.
StatusResponseNoWho(channel, who) ==
    Response("status", NoError, EventTypeStatus, channel, <<>>)

\* &Response{Time, Event: EventTypeStatus, Channel: msg.Channel, Who: who}
StatusResponse(channel, who) ==
    Response("status", NoError, EventTypeStatus, channel, who)

\* The request as OnPresence reads it: unmarshalled over the defaults, with the
\* trailing slash ensured.
PresenceRequest(payload) ==
    LET u == Unmarshal(payload, DefaultRequest)
    IN [u.msg EXCEPT !.Channel = EnsureTrailingSlash(@)]

\* security.ParseChannel([]byte(msg.Key + "/" + msg.Channel))
PresenceChannel(msg) == ParseChannel(msg.Key \o <<"/">> \o msg.Channel)

\* Whether OnPresence gets as far as calling s.auth.Authorize.
PresenceAuthorizes(payload) ==
    /\ ~Unmarshal(payload, DefaultRequest).err
    /\ PresenceChannel(PresenceRequest(payload)).ChannelType # ChannelInvalid

\* Mutant: the extend check comes before the allowed check.
OnPresenceErrorExtendFirst(payload, auth) ==
    IF Unmarshal(payload, DefaultRequest).err THEN ErrBadRequest
    ELSE IF PresenceChannel(PresenceRequest(payload)).ChannelType = ChannelInvalid
    THEN ErrBadRequest
    ELSE IF HasPermission(auth, AllowExtend) THEN ErrUnauthorizedExt
    ELSE IF ~auth.Allowed THEN ErrUnauthorized
    ELSE NoError

\* Mutant: the extend check is missing.
OnPresenceErrorNoExtend(payload, auth) ==
    IF Unmarshal(payload, DefaultRequest).err THEN ErrBadRequest
    ELSE IF PresenceChannel(PresenceRequest(payload)).ChannelType = ChannelInvalid
    THEN ErrBadRequest
    ELSE IF ~auth.Allowed THEN ErrUnauthorized
    ELSE NoError

\* The checks of OnPresence, in the order of the code; the first that fails
\* decides the error.
OnPresenceError(payload, auth) ==
    IF Unmarshal(payload, DefaultRequest).err THEN ErrBadRequest
    ELSE IF PresenceChannel(PresenceRequest(payload)).ChannelType = ChannelInvalid
    THEN ErrBadRequest
    ELSE IF ~auth.Allowed THEN ErrUnauthorized
    ELSE IF HasPermission(auth, AllowExtend) THEN ErrUnauthorizedExt
    ELSE NoError

\* Mutant: a registration the bus refuses is answered with an error.
OnPresenceResultBusChecked(err, busOk) ==
    IF err = NoError /\ ~busOk THEN ErrBadRequest ELSE err

\* s.pubsub.Subscribe(c, ev) / s.pubsub.Unsubscribe(c, ev): the boolean the
\* bus returns is dropped, so the error OnPresence returns is that of its
\* checks alone.
OnPresenceResult(err, busOk) == err

\* Mutant: the changes flag is acted on before the checks have passed.
ChangesRequestedAnyway(err, msg) == msg.Changes # "nil"

\* if msg.Changes != nil, reached only once every check has passed.
ChangesRequested(err, msg) == err = NoError /\ msg.Changes # "nil"

\* Mutant: every return carries true.
OnPresenceOkAlways(err) == TRUE

\* The boolean OnPresence returns beside the response.
OnPresenceOk(err) == err = NoError

\* ssid := message.NewSsid(key.Contract(), channel.Query)
PresenceSsid(payload, auth) ==
    NewSsid(auth.Contract, PresenceChannel(PresenceRequest(payload)).Query)

\* Mutant: the event carries the plain SSID.
SubscriptionEventPlain(c, ssid, channel) ==
    [Conn |-> LocalID(c), User |-> Username(c),
     Ssid |-> ssid, Channel |-> channel.Channel]

\* ev := &event.Subscription{Conn, User, Ssid, Channel}
SubscriptionEvent(c, ssid, channel) ==
    [Conn |-> LocalID(c), User |-> Username(c),
     Ssid |-> NewSsidForPresence(ssid), Channel |-> channel.Channel]

NoEvent == [Conn |-> 0, User |-> <<>>, Ssid |-> <<>>, Channel |-> <<>>]

\* Mutant: changes false is not acted on.
ApplyChangesSubscribeOnly(table, changes, event, busOk) ==
    IF changes = "true" THEN BusSubscribe(table, event, busOk) ELSE table

\* if msg.Changes != nil { switch *msg.Changes { case true: Subscribe; case
\* false: Unsubscribe } }
ApplyChanges(table, changes, event, busOk) ==
    CASE changes = "true" -> BusSubscribe(table, event, busOk)
      [] changes = "false" -> BusUnsubscribe(table, event, busOk)
      [] OTHER -> table

\* The body as OnHTTPPresence reads it: decoded over Request{}, with the
\* trailing slash ensured.
HTTPRequest(payload) ==
    LET u == Unmarshal(payload, ZeroRequest)
    IN [u.msg EXCEPT !.Channel = EnsureTrailingSlash(@)]

\* security.ParseChannel([]byte("emitter/" + msg.Channel))
HTTPChannel(msg) == ParseChannel(<<"emitter", "/">> \o msg.Channel)

StatusOK == 200
StatusBadRequest == 400
StatusUnauthorized == 401
StatusNotFound == 404
StatusInternalServerError == 500

\* Whether OnHTTPPresence gets as far as calling s.auth.Authorize.
HTTPAuthorizes(method, payload) ==
    /\ method = "POST"
    /\ ~Unmarshal(payload, ZeroRequest).err
    /\ HTTPChannel(HTTPRequest(payload)).ChannelType # ChannelInvalid

\* Mutant: a body that does not ask for the status is answered without the
\* aggregation, as OnPresence does.
OnHTTPPresenceErrorStatusGated(method, payload, auth) ==
    IF method # "POST" THEN StatusNotFound
    ELSE IF Unmarshal(payload, ZeroRequest).err THEN StatusBadRequest
    ELSE IF HTTPChannel(HTTPRequest(payload)).ChannelType = ChannelInvalid
    THEN StatusBadRequest
    ELSE IF ~auth.Allowed THEN StatusUnauthorized
    ELSE IF ~HTTPRequest(payload).Status THEN StatusOK
    ELSE 0

\* Mutant: the body is decoded before the method is looked at.
OnHTTPPresenceErrorBodyFirst(method, payload, auth) ==
    IF Unmarshal(payload, ZeroRequest).err THEN StatusBadRequest
    ELSE IF method # "POST" THEN StatusNotFound
    ELSE IF HTTPChannel(HTTPRequest(payload)).ChannelType = ChannelInvalid
    THEN StatusBadRequest
    ELSE IF ~auth.Allowed THEN StatusUnauthorized
    ELSE 0

\* The status OnHTTPPresence writes before the aggregation, 0 when it goes on
\* to the aggregation.
OnHTTPPresenceError(method, payload, auth) ==
    IF method # "POST" THEN StatusNotFound
    ELSE IF Unmarshal(payload, ZeroRequest).err THEN StatusBadRequest
    ELSE IF HTTPChannel(HTTPRequest(payload)).ChannelType = ChannelInvalid
    THEN StatusBadRequest
    ELSE IF ~auth.Allowed THEN StatusUnauthorized
    ELSE 0

\* ssid := message.NewSsid(key.Contract(), channel.Query)
HTTPSsid(payload, auth) ==
    NewSsid(auth.Contract, HTTPChannel(HTTPRequest(payload)).Query)

\* json.Marshal(&Response{...}), then w.Write(resp) or the 500.
HTTPAnswer(channel, who, encOk) ==
    IF encOk THEN [Code |-> StatusOK, Body |-> StatusResponse(channel, who)]
    ELSE [Code |-> StatusInternalServerError, Body |-> NilResponse]

\* The bus calls the switch on *msg.Changes makes.
ChangesCalls(changes) ==
    [Subscribe |-> IF changes = "true" THEN 1 ELSE 0,
     Unsubscribe |-> IF changes = "false" THEN 1 ELSE 0]

\* Mutant: the gathered list is appended to a slice that already holds it.
GatherWhoTwice(all) == all \o all

\* Mutant: the first gathered entry is lost.
GatherWhoTail(all) == IF all = <<>> THEN all ELSE Tail(all)

\* who := make([]Info, 0, 4); who = append(who, s.getAllPresence(ssid)...)
GatherWho(all) == <<>> \o all

\* ------------------------------------------------------------------ state
VARIABLES
    subs,       \* the bus's subscription table of this node, first-seen order
    pc,         \* "idle", "gather" while a request waits for the survey, "done"
    req,        \* the request being handled, or the last one handled
    agg,        \* the aggregation of the current (or last) status request
    asked,      \* surveys received by a peer and not answered yet
    inflight,   \* survey answers in transit
    ret,        \* what OnPresence returned
    w,          \* what OnHTTPPresence wrote
    calls,      \* the collaborator calls made for req
    ev,         \* the event passed to the bus for req
    note,       \* the notification of the last subscribe event
    pub         \* the Publish calls Notify made for note, with their recipients

vars == <<subs, pc, req, agg, asked, inflight, ret, w, calls, ev, note, pub>>

NoRequest ==
    [Path |-> "none", Method |-> "", Conn |-> 0, Payload |-> MalformedPayload,
     Auth |-> NoAuth, Bus |-> TRUE]
NotReturned == [Returned |-> FALSE, Resp |-> NilResponse, Ok |-> FALSE]
NotWritten == [Code |-> 0, Body |-> NilResponse]
NoCalls ==
    [Authorize |-> 0, Subscribe |-> 0, Unsubscribe |-> 0, Publish |-> 0,
     Lookup |-> 0, Query |-> 0]
\* No subscribe event has fired yet.
NoNotification ==
    [State |-> "none", Event |-> "", Ssid |-> <<>>, Conn |-> 0, User |-> <<>>,
     Filter |-> {}, Encoded |-> FALSE]
NoAggregation ==
    [Id |-> 0, Local |-> <<>>, Pending |-> {}, Gathered |-> <<>>, Open |-> FALSE]

Init ==
    /\ subs = <<>>
    /\ pc = "idle"
    /\ req = NoRequest
    /\ agg = NoAggregation
    /\ asked = {}
    /\ inflight = {}
    /\ ret = NotReturned
    /\ w = NotWritten
    /\ calls = NoCalls
    /\ ev = NoEvent
    /\ note = NoNotification
    /\ pub = <<>>

\* ------------------------------------------------- scatter-gather steps
\* Steps 1 and 2 of getAllPresence: the local lookup, then the survey query
\* addressed to the peers that are cluster members at that moment.
StartAggregation(id, table, ssid, targets) ==
    [Id |-> IF targets = {} THEN id ELSE id + 1, Local |-> getLocalPresence(table, ssid),
     Pending |-> targets, Gathered |-> <<>>, Open |-> TRUE]

\* Mutant: the wait ends only when every peer has answered.
GatherReadyWaitAll(a) == a.Pending = {}

\* The wait ends when every peer has answered or the timeout has elapsed.
GatherReady(a) == a.Pending = {} \/ ~a.Open

\* Mutant: an answer is matched to the open aggregation by its peer alone.
InTimeAnyId(a, m) == a.Open /\ m.Peer \in a.Pending

\* Whether an answer in transit is taken into the aggregation a.
InTime(a, m) == a.Open /\ m.Id = a.Id /\ m.Peer \in a.Pending

\* The list getAllPresence returns when the wait ends.
getAllPresence(a) == Merge(a.Local, a.Gathered)

PeerAnswers == SeqsNoDup(PeerIDs, MaxAnswer)

RECURSIVE PeerInfo(_, _)
PeerInfo(ids, p) ==
    IF ids = <<>> THEN <<>>
    ELSE <<Info(Head(ids), p)>> \o PeerInfo(Tail(ids), p)

\* ---------------------------------------------------------------- actions
\* OnPresence, up to its return or, for a status request, up to the point
\* where getAllPresence waits for the survey.
OnPresence(c, payload, auth, busOk, targets) ==
    LET msg == PresenceRequest(payload)
        channel == PresenceChannel(msg)
        checked == OnPresenceError(payload, auth)
        ssid == PresenceSsid(payload, auth)
        event == SubscriptionEvent(c, ssid, channel)
        changed == ChangesRequested(checked, msg)
        err == OnPresenceResult(checked, busOk)
        accepted == err = NoError
        status == accepted /\ msg.Status
    IN /\ pc = "idle"
       /\ targets # {} => agg.Id < MaxSurveys
       /\ req' = [Path |-> "proto", Method |-> "", Conn |-> c,
                  Payload |-> payload, Auth |-> auth, Bus |-> busOk]
       /\ w' = NotWritten
       /\ calls' = [NoCalls EXCEPT
                      !.Authorize = IF PresenceAuthorizes(payload) THEN 1 ELSE 0,
                      !.Subscribe = IF changed THEN ChangesCalls(msg.Changes).Subscribe ELSE 0,
                      !.Unsubscribe = IF changed THEN ChangesCalls(msg.Changes).Unsubscribe ELSE 0,
                      !.Lookup = IF status THEN 1 ELSE 0,
                      !.Query = IF status THEN 1 ELSE 0]
       /\ ev' = IF changed THEN event ELSE NoEvent
       /\ subs' = IF changed THEN ApplyChanges(subs, msg.Changes, event, busOk)
                  ELSE subs
       /\ Len(subs') <= MaxSubs
       /\ IF status
          THEN /\ pc' = "gather"
               /\ agg' = StartAggregation(agg.Id, subs', ssid, targets)
               /\ asked' = {[Id |-> agg'.Id, Peer |-> p] : p \in targets}
               /\ ret' = NotReturned
          ELSE /\ pc' = "done"
               /\ UNCHANGED <<agg, asked>>
               /\ ret' = [Returned |-> TRUE,
                          Resp |-> IF accepted THEN NilResponse ELSE ErrorResponse(err),
                          Ok |-> OnPresenceOk(err)]
       /\ UNCHANGED <<inflight, note, pub>>

\* The rest of OnPresence once the wait of getAllPresence has ended.  A peer
\* that has not answered by now counts as silent.
OnPresenceReturn ==
    /\ pc = "gather"
    /\ req.Path = "proto"
    /\ GatherReady(agg)
    /\ ret' = [Returned |-> TRUE,
               Resp |-> StatusResponse(PresenceRequest(req.Payload).Channel,
                                       GatherWho(getAllPresence(agg))),
               Ok |-> OnPresenceOk(NoError)]
    /\ agg' = [agg EXCEPT !.Open = FALSE]
    /\ asked' = {}
    /\ pc' = "done"
    /\ UNCHANGED <<subs, req, inflight, w, calls, ev, note, pub>>

\* The caller takes what the handler returned and the request is over: only
\* the subscription table, the survey counter and the answers still in
\* transit outlive it.
Respond ==
    /\ pc = "done"
    /\ pc' = "idle"
    /\ req' = NoRequest
    /\ ret' = NotReturned
    /\ w' = NotWritten
    /\ calls' = NoCalls
    /\ ev' = NoEvent
    /\ agg' = [NoAggregation EXCEPT !.Id = agg.Id]
    /\ UNCHANGED <<subs, asked, inflight, note, pub>>

\* OnHTTPPresence, up to its return or up to the point where getAllPresence
\* waits for the survey.
OnHTTPPresence(method, payload, auth, targets) ==
    LET code == OnHTTPPresenceError(method, payload, auth)
    IN /\ pc = "idle"
       /\ targets # {} => agg.Id < MaxSurveys
       /\ req' = [Path |-> "http", Method |-> method, Conn |-> 0,
                  Payload |-> payload, Auth |-> auth, Bus |-> TRUE]
       /\ ret' = NotReturned
       /\ ev' = NoEvent
       /\ calls' = [NoCalls EXCEPT
                      !.Authorize = IF HTTPAuthorizes(method, payload) THEN 1 ELSE 0,
                      !.Lookup = IF code = 0 THEN 1 ELSE 0,
                      !.Query = IF code = 0 THEN 1 ELSE 0]
       /\ IF code = 0
          THEN /\ pc' = "gather"
               /\ agg' = StartAggregation(agg.Id, subs, HTTPSsid(payload, auth), targets)
               /\ asked' = {[Id |-> agg'.Id, Peer |-> p] : p \in targets}
               /\ w' = NotWritten
          ELSE /\ pc' = "done"
               /\ w' = [Code |-> code, Body |-> NilResponse]
               /\ UNCHANGED <<agg, asked>>
       /\ UNCHANGED <<subs, inflight, note, pub>>

\* The rest of OnHTTPPresence once the wait of getAllPresence has ended.
OnHTTPPresenceReturn(encOk) ==
    /\ pc = "gather"
    /\ req.Path = "http"
    /\ GatherReady(agg)
    /\ w' = HTTPAnswer(HTTPRequest(req.Payload).Channel, getAllPresence(agg), encOk)
    /\ agg' = [agg EXCEPT !.Open = FALSE]
    /\ asked' = {}
    /\ pc' = "done"
    /\ UNCHANGED <<subs, req, inflight, ret, calls, ev, note, pub>>

\* A peer's OnSurvey: it answers a survey it received with its own local list.
OnSurvey(q, ids) ==
    /\ q \in asked
    /\ asked' = asked \ {q}
    /\ inflight' = inflight \cup {[Id |-> q.Id, Peer |-> q.Peer, Who |-> PeerInfo(ids, q.Peer)]}
    /\ UNCHANGED <<subs, pc, req, agg, ret, w, calls, ev, note, pub>>

\* An answer arrives while the aggregation it belongs to still waits.
SurveyResponse(m) ==
    /\ m \in inflight
    /\ InTime(agg, m)
    /\ inflight' = inflight \ {m}
    /\ agg' = [agg EXCEPT !.Pending = @ \ {m.Peer},
                          !.Gathered = Append(@, m)]
    /\ UNCHANGED <<subs, pc, req, asked, ret, w, calls, ev, note, pub>>

\* An answer arrives after its aggregation's window closed: it is discarded.
LateResponse(m) ==
    /\ m \in inflight
    /\ ~InTime(agg, m)
    /\ inflight' = inflight \ {m}
    /\ UNCHANGED <<subs, pc, req, agg, asked, ret, w, calls, ev, note, pub>>

\* The fixed timeout of the wait elapses.
GatherTimeout ==
    /\ pc = "gather"
    /\ agg.Open
    /\ agg' = [agg EXCEPT !.Open = FALSE]
    /\ UNCHANGED <<subs, pc, req, asked, inflight, ret, w, calls, ev, note, pub>>

\* Elsewhere in the broker a connection subscribes to a channel: an ordinary
\* subscription enters the table under the plain SSID.
BrokerSubscribe(c, ssid) ==
    /\ Len(subs) < MaxSubs
    /\ \A i \in 1..Len(subs) : subs[i] # [Ssid |-> ssid, Conn |-> c]
    /\ subs' = Append(subs, [Ssid |-> ssid, Conn |-> c])
    /\ UNCHANGED <<pc, req, agg, asked, inflight, ret, w, calls, ev, note, pub>>

\* ---------------------------------------------------------------- Notify
EventTypeSubscribe == "subscribe"

\* The notification of a subscribe event of connection c under the plain
\* SSID ssid: it is keyed to the presence-watch class of that SSID.  The
\* filter is the set of subscribers the caller's filter function admits.
NewNotification(event, c, ssid, filter) ==
    [State |-> "raised", Event |-> event, Ssid |-> NewSsidForPresence(ssid),
     Conn |-> LocalID(c), User |-> Username(c), Filter |-> filter,
     Encoded |-> FALSE]

\* channel := []byte("emitter/presence/")
PresenceBroadcast == "emitter/presence/"

\* Mutant: the message is published whether or not the encoding succeeded.
NotifyPublishUnencoded(n, filter, encOk) ==
    <<[Ssid |-> n.Ssid, Channel |-> PresenceBroadcast, Filter |-> filter]>>

\* The Publish calls of Notify: message.New(ev.Ssid, channel, encoded) with the
\* caller's filter when ev.Encode() succeeds, none when it fails.
NotifyPublish(n, filter, encOk) ==
    IF encOk
    THEN <<[Ssid |-> n.Ssid, Channel |-> PresenceBroadcast, Filter |-> filter]>>
    ELSE <<>>

RECURSIVE ConnsOf(_)
ConnsOf(entries) ==
    IF entries = <<>> THEN <<>>
    ELSE <<Head(entries).Conn>> \o ConnsOf(Tail(entries))

\* PubSub.Publish(m, filter): the bus delivers m once to every subscriber
\* registered under m's SSID that the filter admits.
BusPublish(table, m) ==
    [Ssid |-> m.Ssid, Channel |-> m.Channel, Filter |-> m.Filter,
     To |-> ConnsOf(SelectSeq(table,
                LAMBDA e : e.Ssid = m.Ssid /\ e.Conn \in m.Filter))]

\* Elsewhere in the broker a connection subscribes to a channel: the entry
\* enters the table under the plain SSID and the event's notification is
\* raised, with the filter its caller chose.  One notification is dealt with
\* at a time.
SubscribeEvent(c, ssid, filter) ==
    /\ note.State # "raised"
    /\ Len(subs) < MaxSubs
    /\ \A i \in 1..Len(subs) : subs[i] # [Ssid |-> ssid, Conn |-> c]
    /\ subs' = Append(subs, [Ssid |-> ssid, Conn |-> c])
    /\ note' = NewNotification(EventTypeSubscribe, c, ssid, filter)
    /\ pub' = <<>>
    /\ UNCHANGED <<pc, req, agg, asked, inflight, ret, w, calls, ev>>

\* Notify(ev, filter): it returns nothing to its caller.
Notify(n, filter, encOk) ==
    LET msgs == NotifyPublish(n, filter, encOk)
    IN /\ n.State = "raised"
       /\ n = note
       /\ pub' = [i \in 1..Len(msgs) |-> BusPublish(subs, msgs[i])]
       /\ note' = [note EXCEPT !.State = "handled", !.Encoded = encOk]
       /\ UNCHANGED <<subs, pc, req, agg, asked, inflight, ret, w, calls, ev>>

\* ------------------------------------------------------------ input spaces
ValidChannels ==
    {ParseChannel(k \o <<"/">> \o t) : k \in Keys, t \in Texts}
        \ {InvalidChannel}

PlainSsids == {NewSsid(ct, ch.Query) : ct \in Contracts, ch \in ValidChannels}

\* Authorize answers only a request that reaches it.
AuthChoices(payload) ==
    IF PresenceAuthorizes(payload) THEN AuthOutcomes ELSE {NoAuth}

HTTPAuthChoices(method, payload) ==
    IF HTTPAuthorizes(method, payload) THEN AuthOutcomes ELSE {NoAuth}

Methods == {"POST", "GET"}

\* The bus answers only an accepted request that sets the changes flag.
BusChoices(payload, auth) ==
    IF OnPresenceError(payload, auth) = NoError
       /\ PresenceRequest(payload).Changes # "nil"
    THEN BOOLEAN ELSE {TRUE}

\* Plain status queries on one channel, the requests of the aggregation runs.
StatusPayloads ==
    {p \in Payloads : p.WellFormed /\ p.Channel = <<"a">>
                      /\ p.Status = "true" /\ p.Changes = "absent"}

Granted == {a \in AuthOutcomes : a.Allowed /\ ~a.Extend}

\* The channels of the notification runs.
WatchChannels == {<<"a">>, <<"a", "a">>}

\* Requests that only set or clear the changes flag, on those channels.
WatchPayloads ==
    {p \in Payloads : p.WellFormed /\ p.Channel \in WatchChannels
                      /\ p.Status = "false" /\ p.Changes # "absent"}

WatchSsids ==
    {NewSsid(ct, Segments(EnsureTrailingSlash(ch))) :
        ct \in Contracts, ch \in WatchChannels}

\* The filters a caller of Notify may supply: every subscriber, or every
\* subscriber but the connection the event is about.
Filters(c) == {Conns, Conns \ {c}}

\* Requests of every shape, on a node that has no cluster peers.
Next ==
    \/ \E c \in Conns, payload \in Payloads :
         \E auth \in AuthChoices(payload) :
           \E busOk \in BusChoices(payload, auth) :
              OnPresence(c, payload, auth, busOk, {})
    \/ OnPresenceReturn
    \/ \E method \in Methods, payload \in Payloads :
         \E auth \in HTTPAuthChoices(method, payload) :
            OnHTTPPresence(method, payload, auth, {})
    \/ \E encOk \in BOOLEAN : OnHTTPPresenceReturn(encOk)
    \/ Respond
    \/ GatherTimeout
    \/ \E c \in Conns, ssid \in PlainSsids : BrokerSubscribe(c, ssid)

Spec == Init /\ [][Next]_vars

\* Status queries against the whole cluster.
AggNext ==
    \/ \E c \in Conns, payload \in StatusPayloads :
         \E auth \in Granted, targets \in SUBSET Peers :
            OnPresence(c, payload, auth, TRUE, targets)
    \/ OnPresenceReturn
    \/ \E payload \in StatusPayloads :
         \E auth \in Granted, targets \in SUBSET Peers :
            OnHTTPPresence("POST", payload, auth, targets)
    \/ \E encOk \in BOOLEAN : OnHTTPPresenceReturn(encOk)
    \/ Respond
    \/ \E q \in asked, ids \in PeerAnswers : OnSurvey(q, ids)
    \/ \E m \in inflight : SurveyResponse(m)
    \/ \E m \in inflight : LateResponse(m)
    \/ GatherTimeout
    \/ \E c \in Conns : BrokerSubscribe(c, PresenceSsid(CHOOSE p \in StatusPayloads : TRUE,
                                                        CHOOSE a \in Granted : TRUE))

AggSpec == Init /\ [][AggNext]_vars

\* The code's scheduling: the timer of the wait fires, and a handler whose
\* wait has ended runs on to its return.
AggLive ==
    /\ AggSpec
    /\ WF_vars(GatherTimeout)
    /\ WF_vars(OnPresenceReturn)
    /\ WF_vars(\E encOk \in BOOLEAN : OnHTTPPresenceReturn(encOk))

\* Change registrations and subscribe events with their notifications.
NotifyNext ==
    \/ \E c \in Conns, payload \in WatchPayloads :
         \E auth \in Granted, busOk \in BOOLEAN :
            OnPresence(c, payload, auth, busOk, {})
    \/ Respond
    \/ \E c \in Conns, ssid \in WatchSsids :
         \E filter \in Filters(c) : SubscribeEvent(c, ssid, filter)
    \/ \E encOk \in BOOLEAN : Notify(note, note.Filter, encOk)

NotifySpec == Init /\ [][NotifyNext]_vars

\* ------------------------------------------------------------------ claims
\* A status request whose aggregation has returned.
StatusDone == pc = "done" /\ calls.Query = 1

\* ... and that was answered with a list.
StatusAnswered == StatusDone /\ (req.Path = "proto" \/ w.Code = StatusOK)

ReturnedWho == IF req.Path = "proto" THEN ret.Resp.Who ELSE w.Body.Who

\* The SSID a status request is about, from its channel text and contract.
RequestSsid(r) ==
    NewSsid(r.Auth.Contract, Segments(EnsureTrailingSlash(r.Payload.Channel)))

NoDupIds(who) == \A i, j \in 1..Len(who) : i # j => who[i].ID # who[j].ID

GatheredIds == UNION {IdsOf(agg.Gathered[i].Who) : i \in 1..Len(agg.Gathered)}

Reordered(f) == [i \in 1..Len(agg.Gathered) |-> agg.Gathered[f[i]]]

\* C1: partition tolerance.  When no peer answer was gathered before the wait
\* ended (no peers at all, or none answered in time), the who list is exactly
\* the local store's answer for the SSID, in first-seen order, and the
\* in-protocol request ends with a status response and no error.
C1_PartitionTolerant ==
    /\ [](StatusDone /\ agg.Gathered = <<>> =>
            /\ req.Path = "proto" =>
                 /\ ret.Ok
                 /\ ret.Resp.Kind = "status"
                 /\ ret.Resp.Err = NoError
                 /\ ret.Resp.Who = agg.Local
            /\ req.Path = "http" /\ w.Code = StatusOK => w.Body.Who = agg.Local)
    /\ [][pc = "idle" /\ pc' = "gather" =>
            agg'.Local = getLocalPresence(subs', RequestSsid(req'))]_vars

C1_Witness ==
    /\ StatusDone
    /\ req.Path = "proto"
    /\ agg.Gathered = <<>>
    /\ agg.Pending = Peers
    /\ Len(ret.Resp.Who) = 2

\* C2: deduplication.  Every returned list holds each connection identifier
\* at most once, and its identifiers are exactly those of the local answer
\* and of the peer answers gathered within the window.
C2_Deduplicated ==
    StatusAnswered =>
        /\ NoDupIds(ReturnedWho)
        /\ IdsOf(ReturnedWho) = IdsOf(agg.Local) \cup GatheredIds

C2_Witness ==
    /\ StatusAnswered
    /\ Len(agg.Gathered) = 2
    /\ \E id \in IdsOf(agg.Local) :
          id \in IdsOf(agg.Gathered[1].Who) /\ id \in IdsOf(agg.Gathered[2].Who)

\* C3: order-insensitivity and idempotence.  Whatever the order in which the
\* gathered answers arrived, the set of identifiers returned is the same, and
\* merging an answer that was already merged changes nothing.
C3_OrderInsensitive ==
    StatusAnswered =>
        /\ \A f \in Permutations(1..Len(agg.Gathered)) :
              IdsOf(Merge(agg.Local, Reordered(f))) = IdsOf(ReturnedWho)
        /\ \A i \in 1..Len(agg.Gathered) :
              IdsOf(Merge(agg.Local, Append(agg.Gathered, agg.Gathered[i])))
                  = IdsOf(ReturnedWho)
        /\ IdsOf(Merge(ReturnedWho, agg.Gathered)) = IdsOf(ReturnedWho)

C3_Witness ==
    /\ StatusAnswered
    /\ Len(agg.Gathered) = 2
    /\ agg.Local # <<>>
    /\ agg.Gathered[1].Who # <<>>
    /\ agg.Gathered[2].Who # <<>>
    /\ IdsOf(agg.Gathered[1].Who) # IdsOf(agg.Gathered[2].Who)

\* C4: bounded wait.  Every aggregation returns, whichever peers answer and
\* whichever stay silent; it returns only once all peers have answered or the
\* timeout has elapsed.
C4_BoundedWait ==
    /\ (pc = "gather") ~> (pc = "done")
    /\ [][pc = "gather" /\ pc' = "done" => agg.Pending = {} \/ ~agg.Open]_vars

\* An aggregation returned with one peer's answer although the other peer it
\* asked never answered.
C4_Witness ==
    /\ StatusDone
    /\ agg.Pending # {}
    /\ agg.Gathered # <<>>

\* C5: late answers are discarded.  The gathered answers are all answers to
\* this very aggregation; the gathered list grows only while the window is
\* open; and every entry a peer contributed to the result was gathered.
C5_LateDiscarded ==
    /\ [](/\ \A i \in 1..Len(agg.Gathered) : agg.Gathered[i].Id = agg.Id
          /\ StatusAnswered =>
                \A i \in 1..Len(ReturnedWho) :
                    ReturnedWho[i].Node # LocalNode =>
                        \E k \in 1..Len(agg.Gathered) :
                            ReturnedWho[i] \in Range(agg.Gathered[k].Who))
    /\ [][Len(agg'.Gathered) > Len(agg.Gathered) =>
            pc = "gather" /\ agg.Open /\ agg'.Id = agg.Id]_vars

\* The second aggregation returned while an answer to the first was still in
\* transit from a peer the second one asked in vain; nothing of that answer
\* is in the result.
C5_Witness ==
    /\ StatusAnswered
    /\ \E m \in inflight :
          /\ m.Id < agg.Id
          /\ m.Peer \in agg.Pending
          /\ m.Who # <<>>
          /\ IdsOf(m.Who) \cap IdsOf(ReturnedWho) = {}

\* An in-protocol request, and whether its payload is well formed and names a
\* valid channel.
ProtoReq == req.Path = "proto"

WellFormedValid(r) ==
    /\ r.Payload.WellFormed
    /\ ParseChannel(r.Payload.Key \o <<"/">> \o EnsureTrailingSlash(r.Payload.Channel))
           .ChannelType # ChannelInvalid

\* An in-protocol request that passes every check.
Accepted(r) == WellFormedValid(r) /\ r.Auth.Allowed /\ ~r.Auth.Extend

\* C6 as stated: a key with the extend capability gets UnauthorizedExtend
\* whether or not the authorization reports it as allowed.
C6_ExtendAlwaysDenied ==
    ProtoReq /\ ret.Returned /\ WellFormedValid(req) /\ req.Auth.Extend =>
        ret.Resp = ErrorResponse(ErrUnauthorizedExt)

\* C6 amended: a key with the extend capability that the authorization
\* reports as allowed gets UnauthorizedExtend, whatever else the request
\* asks; one that is reported as not allowed gets Unauthorized.  Neither
\* reaches the aggregation.
C6_ExtendDeniedWhenAllowed ==
    ProtoReq /\ WellFormedValid(req) /\ req.Auth.Extend =>
        /\ pc = "done"
        /\ ret.Returned
        /\ ret.Resp = ErrorResponse(IF req.Auth.Allowed THEN ErrUnauthorizedExt
                                    ELSE ErrUnauthorized)

C6_Witness ==
    /\ ProtoReq
    /\ WellFormedValid(req)
    /\ req.Auth.Extend
    /\ req.Auth.Allowed
    /\ req.Payload.Changes = "true"
    /\ ret.Resp.Err = ErrUnauthorizedExt

\* C7 as stated: the boolean OnPresence returns is always true.
C7_AlwaysTrue == ProtoReq /\ ret.Returned => ret.Ok

\* C7 amended: OnPresence returns true exactly when it accepts the request
\* (a status response or no response), and false beside every error response.
C7_TrueIffAccepted ==
    ProtoReq /\ ret.Returned =>
        /\ ret.Ok <=> Accepted(req)
        /\ ret.Ok <=> ret.Resp.Kind # "error"

C7_Witness ==
    /\ ProtoReq
    /\ ret.Returned
    /\ ~req.Payload.WellFormed
    /\ ~ret.Ok
    /\ ret.Resp = ErrorResponse(ErrBadRequest)

\* C8: no HTTP request whose key has the extend capability is answered 200
\* or reaches the aggregation.
C8_HTTPExtendBarred ==
    req.Path = "http" /\ req.Auth.Extend =>
        w.Code # StatusOK /\ calls.Lookup = 0 /\ calls.Query = 0

C10_ResponseIffStatus ==
    ProtoReq /\ Accepted(req) =>
        IF req.Payload.Status = "false"
        THEN /\ pc = "done"
             /\ ret = [Returned |-> TRUE, Resp |-> NilResponse, Ok |-> TRUE]
             /\ calls.Lookup = 0
             /\ calls.Query = 0
        ELSE /\ calls.Lookup = 1
             /\ calls.Query = 1
             /\ pc = "done" =>
                  /\ ret.Returned
                  /\ ret.Resp.Kind = "status"
                  /\ ret.Resp.Event = "status"
                  /\ ret.Resp.Channel = EnsureTrailingSlash(req.Payload.Channel)
                  /\ ret.Resp.Who = Merge(agg.Local, agg.Gathered)

C10_Witness ==
    /\ ProtoReq
    /\ Accepted(req)
    /\ pc = "done"
    /\ req.Payload.Status = "absent"
    /\ req.Payload.Changes = "false"
    /\ ~HasSuffix(req.Payload.Channel, "/")
    /\ Len(ret.Resp.Who) = 2

\* An HTTP request, and the status the order of checks assigns to it before
\* the aggregation: 0 when every check passes.
HTTPReq == req.Path = "http"

HTTPValid(r) ==
    ParseChannel(<<"emitter", "/">> \o EnsureTrailingSlash(r.Payload.Channel))
        .ChannelType # ChannelInvalid

\* C11: the HTTP handler answers every request with one status, chosen in
\* this order: 404 for a method other than POST, 400 for a body that does not
\* decode, 400 for an invalid channel, 401 when the authorization fails, and
\* once the aggregation has returned 500 with no body or 200 with the status
\* body; a status once written is not written again for that request.
C11_StatusMapping ==
    /\ [](HTTPReq =>
            /\ pc = "gather" => w = NotWritten
            /\ pc = "done" =>
                 IF req.Method # "POST" THEN w.Code = StatusNotFound
                 ELSE IF ~req.Payload.WellFormed THEN w.Code = StatusBadRequest
                 ELSE IF ~HTTPValid(req) THEN w.Code = StatusBadRequest
                 ELSE IF ~req.Auth.Allowed THEN w.Code = StatusUnauthorized
                 ELSE \/ w.Code = StatusInternalServerError /\ w.Body = NilResponse
                      \/ /\ w.Code = StatusOK
                         /\ w.Body.Kind = "status"
                         /\ w.Body.Event = EventTypeStatus
            /\ w.Code \in {StatusNotFound, StatusBadRequest, StatusUnauthorized}
                 => w.Body = NilResponse)
    /\ [][HTTPReq /\ w # NotWritten /\ req' = req => w' = w]_vars

\* A GET whose body does not decode either is answered 404, not 400.
C11_Witness ==
    /\ HTTPReq
    /\ req.Method = "GET"
    /\ ~req.Payload.WellFormed
    /\ w.Code = StatusNotFound

\* An HTTP POST that passes every check of OnHTTPPresence.
HTTPAccepted(r) ==
    /\ r.Method = "POST"
    /\ r.Payload.WellFormed
    /\ HTTPValid(r)
    /\ r.Auth.Allowed

\* C12: whatever status and changes its body carries, an HTTP request makes
\* no Subscribe, Unsubscribe or Publish call, passes no event to the bus and
\* leaves the subscription table and the published notifications as they
\* were; one that passes the checks always runs the aggregation and, unless
\* the encoding of the response fails, is answered 200 with the status body.
C12_HTTPOneShot ==
    /\ [](HTTPReq =>
            /\ calls.Subscribe = 0
            /\ calls.Unsubscribe = 0
            /\ calls.Publish = 0
            /\ ev = NoEvent
            /\ HTTPAccepted(req) =>
                 /\ calls.Lookup = 1
                 /\ calls.Query = 1
                 /\ pc = "done" /\ w.Code # StatusInternalServerError =>
                      /\ w.Code = StatusOK
                      /\ w.Body = StatusResponse(
                             EnsureTrailingSlash(req.Payload.Channel),
                             Merge(agg.Local, agg.Gathered)))
    /\ [][HTTPReq' /\ pc' # pc => subs' = subs /\ pub' = pub /\ note' = note]_vars

\* A body that says status false and changes true is answered with the list.
C12_Witness ==
    /\ HTTPReq
    /\ req.Payload.Status = "false"
    /\ req.Payload.Changes = "true"
    /\ w.Code = StatusOK
    /\ Len(w.Body.Who) = 2

\* The connections registered in the table under an SSID.
Watchers(table, ssid) ==
    {table[i].Conn : i \in {k \in 1..Len(table) : table[k].Ssid = ssid}}

\* How many times the Publish calls p delivered to connection r.
Deliveries(p, r) ==
    Cardinality({ij \in UNION {{<<i, j>> : j \in 1..Len(p[i].To)} : i \in 1..Len(p)} :
                    p[ij[1]].To[ij[2]] = r})

\* A step in which OnPresence takes a request, and one in which Notify deals
\* with the notification of a subscribe event.
OnPresenceStep == pc = "idle" /\ pc' # "idle" /\ req'.Path = "proto"
NotifyStep == note.State = "raised" /\ note'.State = "handled"

WatchSsidOf(r) == NewSsidForPresence(RequestSsid(r))

C14_NotifyBestEffort ==
    /\ [][NotifyStep =>
            /\ IF note'.Encoded
               THEN /\ Len(pub') = 1
                    /\ pub'[1].Channel = PresenceBroadcast
                    /\ pub'[1].Ssid = note.Ssid
                    /\ pub'[1].Filter = note.Filter
               ELSE pub' = <<>>
            /\ note' = [note EXCEPT !.State = "handled", !.Encoded = note'.Encoded]
            /\ UNCHANGED <<subs, pc, req, agg, ret, w, calls, ev>>]_vars
    /\ [][note.State = "handled" /\ note'.State = "handled" => pub' = pub]_vars
    /\ [](Len(pub) <= 1 /\ (note.State # "handled" => pub = <<>>))

\* A notification that failed to encode was dropped although a connection was
\* registered to receive it.
C14_Witness ==
    /\ note.State = "handled"
    /\ ~note.Encoded
    /\ pub = <<>>
    /\ Watchers(subs, note.Ssid) \ {note.Conn} # {}

\* C15: what OnPresence returns for an accepted request that sets the changes
\* flag is fixed by the request and by the table as it was before the
\* request, whether the bus answers true or false: never an error, true as
\* the boolean, no response when status is false, and otherwise the status
\* response over the list looked up for the channel.
C15_FireAndForget ==
    /\ [](ProtoReq /\ Accepted(req) /\ req.Payload.Changes # "absent" =>
            /\ ret.Resp.Kind # "error"
            /\ ret.Returned => ret.Ok
            /\ IF req.Payload.Status = "false"
               THEN ret = [Returned |-> TRUE, Resp |-> NilResponse, Ok |-> TRUE]
               ELSE /\ calls.Query = 1
                    /\ pc = "done" =>
                         ret.Resp = StatusResponse(
                             EnsureTrailingSlash(req.Payload.Channel),
                             Merge(agg.Local, agg.Gathered)))
    /\ [][/\ OnPresenceStep
          /\ Accepted(req')
          /\ req'.Payload.Changes # "absent"
          /\ req'.Payload.Status # "false"
          => agg'.Local = getLocalPresence(subs, RequestSsid(req'))]_vars

\* The bus refused the registration and the requester still got its list.
C15_Witness ==
    /\ ProtoReq
    /\ Accepted(req)
    /\ req.Payload.Changes = "true"
    /\ ~req.Bus
    /\ pc = "done"
    /\ ret.Ok
    /\ ret.Resp.Kind = "status"
    /\ Len(ret.Resp.Who) = 2

\* The channel text a handler works with after its trailing-slash step, and
\* the channel it parses from it.
HandlerText(r, payload) ==
    IF r.Path = "proto" THEN PresenceRequest(payload).Channel
    ELSE HTTPRequest(payload).Channel

HandlerChannel(r, payload) ==
    IF r.Path = "proto" THEN PresenceChannel(PresenceRequest(payload))
    ELSE HTTPChannel(HTTPRequest(payload))

\* A request whose payload a handler decoded.
Decoded(r) ==
    /\ r.Path # "none"
    /\ r.Payload.WellFormed
    /\ r.Path = "http" => r.Method = "POST"

\* C16: on both entry points the text the handler works with ends in a slash;
\* it is the request's text when that ends in a slash and the request's text
\* plus one slash otherwise; normalizing it again changes nothing; the
\* handler goes on to the authorization iff the slash-terminated form parses;
\* a request that differs only by the trailing slash is parsed to the same
\* channel, and the response echoes the slash-terminated text.
C16_TrailingSlash ==
    Decoded(req) =>
        LET t == req.Payload.Channel
            n == HandlerText(req, req.Payload)
            slashed == [req.Payload EXCEPT !.Channel = t \o <<"/">>]
            prefix == IF ProtoReq THEN req.Payload.Key ELSE <<"emitter">>
        IN /\ HasSuffix(n, "/")
           /\ n = IF HasSuffix(t, "/") THEN t ELSE t \o <<"/">>
           /\ EnsureTrailingSlash(n) = n
           /\ HandlerText(req, [req.Payload EXCEPT !.Channel = n]) = n
           /\ calls.Authorize = 1 <=>
                ParseChannel(prefix \o <<"/">> \o n).ChannelType # ChannelInvalid
           /\ ~HasSuffix(t, "/") =>
                /\ HandlerChannel(req, slashed) = HandlerChannel(req, req.Payload)
                /\ HandlerText(req, slashed) = n
           /\ ProtoReq /\ ret.Resp.Kind = "status" => ret.Resp.Channel = n
           /\ HTTPReq /\ w.Code = StatusOK => w.Body.Channel = n

\* A request for "a" was answered for "a/".
C16_Witness ==
    /\ ProtoReq
    /\ req.Payload.Channel = <<"a">>
    /\ ret.Resp.Kind = "status"
    /\ ret.Resp.Channel = <<"a", "/">>

\* C17: OnPresence checks the payload, then the channel, then the
\* authorization, then the extend permission, and the first check that fails
\* decides the one error it returns; Authorize is called once for a request
\* with a well-formed payload and a valid channel and not at all otherwise,
\* and not again while the request is handled; a request that fails a check
\* has returned without waiting for anything.
C17_ValidationOrder ==
    /\ [](ProtoReq =>
            /\ calls.Authorize = IF WellFormedValid(req) THEN 1 ELSE 0
            /\ ~WellFormedValid(req) => req.Auth = NoAuth
            /\ ~Accepted(req) => pc = "done" /\ ret.Returned
            /\ ret.Returned =>
                 ret.Resp.Err =
                    IF ~req.Payload.WellFormed THEN ErrBadRequest
                    ELSE IF ~WellFormedValid(req) THEN ErrBadRequest
                    ELSE IF ~req.Auth.Allowed THEN ErrUnauthorized
                    ELSE IF req.Auth.Extend THEN ErrUnauthorizedExt
                    ELSE NoError)
    /\ [][ProtoReq /\ req' = req => calls'.Authorize = calls.Authorize]_vars

\* A key that is not allowed and has the extend permission: the authorization
\* check, which comes first, decides.
C17_Witness ==
    /\ ProtoReq
    /\ WellFormedValid(req)
    /\ ~req.Auth.Allowed
    /\ req.Auth.Extend
    /\ calls.Authorize = 1
    /\ ret.Resp = ErrorResponse(ErrUnauthorized)

\* A request answered with an error response or with 400, 401 or 404.
Rejected ==
    \/ ProtoReq /\ ret.Resp.Kind = "error"
    \/ HTTPReq /\ w.Code \in {StatusBadRequest, StatusUnauthorized, StatusNotFound}

\* C18: for a rejected request no Subscribe, Unsubscribe or Publish call, no
\* local lookup and no survey query was made and no event was passed to the
\* bus, whatever its changes flag says; the step that rejects it leaves the
\* subscription table, the aggregation and the pending surveys as they were.
C18_RejectedNoEffect ==
    /\ [](Rejected =>
            /\ pc = "done"
            /\ calls.Subscribe = 0
            /\ calls.Unsubscribe = 0
            /\ calls.Publish = 0
            /\ calls.Lookup = 0
            /\ calls.Query = 0
            /\ ev = NoEvent)
    /\ [][pc = "idle" /\ Rejected' =>
            /\ subs' = subs
            /\ agg' = agg
            /\ asked' = asked
            /\ inflight' = inflight
            /\ pub' = pub]_vars

\* A requester registered for a channel's changes asked to be deregistered
\* with a key that is not allowed: it is still registered.
C18_Witness ==
    /\ ProtoReq
    /\ ret.Resp = ErrorResponse(ErrUnauthorized)
    /\ req.Payload.Changes = "false"
    /\ WellFormedValid(req)
    /\ \E i \in 1..Len(subs) :
          /\ subs[i].Conn = req.Conn
          /\ \E ct \in Contracts :
                subs[i].Ssid = NewSsidForPresence(
                    NewSsid(ct, Segments(EnsureTrailingSlash(req.Payload.Channel))))

\* Whether an SSID is of the presence-watch class, and the table without the
\* entries registered under such SSIDs.
IsWatch(ssid) ==
    Len(ssid) >= 2 /\ ssid[1] = <<"system">> /\ ssid[2] = <<"presence">>

WithoutWatches(table) == SelectSeq(table, LAMBDA e : ~IsWatch(e.Ssid))

\* C19: the event of a change registration carries a presence-watch SSID,
\* which is not the plain SSID of any channel; the list a status request looks
\* up is the one it would look up in the table stripped of every change
\* registration, this request's own included; so a requester that sets
\* changes true is in its own list only if the table already held an ordinary
\* subscription of its connection to the channel, although its registration
\* is in the table when the aggregation starts.
C19_DistinctNamespace ==
    /\ [](/\ ev # NoEvent => IsWatch(ev.Ssid) /\ ev.Ssid \notin PlainSsids
          /\ \A s \in PlainSsids : ~IsWatch(s))
    /\ [][pc = "idle" /\ pc' = "gather" =>
            /\ agg'.Local = getLocalPresence(WithoutWatches(subs), RequestSsid(req'))
            /\ agg'.Local = getLocalPresence(WithoutWatches(subs'), RequestSsid(req'))
            /\ req'.Path = "proto" /\ req'.Payload.Changes = "true" =>
                 /\ req'.Bus => req'.Conn \in Watchers(subs', WatchSsidOf(req'))
                 /\ req'.Conn \in IdsOf(agg'.Local) =>
                      \E i \in 1..Len(subs) :
                          subs[i] = [Ssid |-> RequestSsid(req'), Conn |-> req'.Conn]]_vars

\* A requester that registered for changes and asked for the status got the
\* other connection's subscription and not itself.
C19_Witness ==
    /\ ProtoReq
    /\ Accepted(req)
    /\ req.Payload.Changes = "true"
    /\ req.Bus
    /\ pc = "done"
    /\ req.Conn \in Watchers(subs, WatchSsidOf(req))
    /\ Len(ret.Resp.Who) = 1
    /\ ret.Resp.Who[1].ID # req.Conn

\* The in-protocol request that asks what an HTTP body asks: the same key and
\* channel text, status true and no changes flag.
ProtoTwin(payload) == [payload EXCEPT !.Status = "true", !.Changes = "absent"]

\* C20: an HTTP POST and the in-protocol request with status true and no
\* changes flag for the same channel, under the same authorization outcome
\* and the same presence state, are both accepted or both rejected, and when
\* accepted the HTTP body is the response OnPresence returns: the same event
\* kind, normalized channel text and who entries.
C20_AdaptersEquivalent ==
    HTTPReq /\ req.Method = "POST" /\ pc = "done" =>
        LET twin == ProtoTwin(req.Payload)
            accepted == OnPresenceError(twin, req.Auth) = NoError
        IN /\ calls.Query = 1 <=> accepted
           /\ PresenceChannel(PresenceRequest(twin)).Channel
                = HTTPChannel(HTTPRequest(req.Payload)).Channel
           /\ w.Code = StatusOK =>
                w.Body = StatusResponse(PresenceRequest(twin).Channel,
                                        GatherWho(getAllPresence(agg)))

====
